---- MODULE Spec2Model ----
(***************************************************************************)
(* Model of the vibrational subsystem analysis solver of LOOS              *)
(* (Packages/ElasticNetworks/vsa-lib.cpp): VSA::solve, VSA::eigenDecomp    *)
(* and VSA::massWeight, together with the matrix primitives and LAPACK     *)
(* backends they call.                                                     *)
(*                                                                         *)
(* Matrices are records [rows, cols, den, at]: `at' is the sequence of the *)
(* rows of integer numerators and `den' is the common denominator, so      *)
(* that the inverse of an integer matrix is exact.                         *)
(* Eigenvector matrices, whose entries come out of LAPACK, are records     *)
(* [rows, col]: `col' is the sequence of the columns, each column named by *)
(* the backend column it was produced from and by what was done to it.     *)
(*                                                                         *)
(* The second part models the Amber trajectory reader (amber_traj.cpp):    *)
(* AmberTraj::init and the two AmberTraj::readFrame, over a file of        *)
(* white-space separated numbers and an input stream with its state bits.  *)
(***************************************************************************)
EXTENDS Integers, Sequences, FiniteSets, TLC

\* ------------------------------------------------------------------ bounds
\* largest number of atoms of the model handed to the Hessian builder
MaxAtoms == 4
\* largest subset_size_ a caller passes
MaxSubset == 3
\* the spring constant of the interaction policy: 0 (no coupling) or this
MaxSpring == 2
\* eigenvalues, singular values and buffer contents range over 0..MaxVal
MaxVal == 1
\* calls of solve() on one VSA object
MaxSolves == 2
\* bytes of the title line of a trajectory file, its newline included
MaxTitle == 2
\* atoms per frame of a trajectory file
MaxNatoms == 2
\* complete frames of a trajectory file; readFrame(i) is called with i up
\* to one more
MaxFrames == 3
\* states in the state file of neff, bins per state, and the largest bin id
MaxStates == 2
MaxBins == 2
MaxBin == 2
\* lipids of lipid_lifetime, its option maxdt, and how many elements past
\* the end of a time series the probability loop is followed
MaxLipids == 2
MaxDt == 5
MaxPast == 1

\* ------------------------------------------------- dense matrix primitives
Idx(k) == 0 .. (k - 1)

\* the array f, tabulated: TLC builds a function lazily and would evaluate
\* an entry of a product of products once for every use of it; comparing the
\* array with itself makes TLC store its entries
Tab(f) == IF f = f THEN f ELSE f

\* the r x c array of the entries f(i, j), kept as the sequence of its rows
Rows(r, c, f(_, _)) ==
  Tab([i \in 1 .. r |-> [j \in 1 .. c |-> f(i - 1, j - 1)]])

\* entry (i, j) of the array f, 0-based as in the source
Entry(f, i, j) == f[i + 1][j + 1]

\* A(i, j)
At(A, i, j) == Entry(A.at, i, j)

\* Matrix(r, c) filled by f
Mat(r, c, f(_, _)) ==
  [rows |-> r, cols |-> c, den |-> 1, at |-> Rows(r, c, f)]

\* a default-constructed DoubleMatrix: no rows, no columns
EmptyMat == Mat(0, 0, LAMBDA i, j : 0)

\* Math::Range(a, b) is the half-open interval [a, b)
Range(a, b) == <<a, b>>

\* submatrix(A, R, C): the rectangle of A with rows R and columns C; the
\* extraction fails when a range exceeds the bounds of A
submatrixFails(A, R, C) ==
  \/ R[1] > R[2] \/ C[1] > C[2]
  \/ R[2] > A.rows \/ C[2] > A.cols

submatrix(A, R, C) ==
  [rows |-> R[2] - R[1], cols |-> C[2] - C[1], den |-> A.den,
   at |-> Rows(R[2] - R[1], C[2] - C[1],
               LAMBDA i, j : At(A, i + R[1], j + C[1]))]

RECURSIVE DotTo(_, _, _, _, _)
\* sum over k < K of A(i,k) * B(k,j)
DotTo(A, B, i, j, K) ==
  IF K = 0 THEN 0
  ELSE DotTo(A, B, i, j, K - 1) + At(A, i, K - 1) * At(B, K - 1, j)

\* operator* of two matrices
MMMultiply(A, B) ==
  [rows |-> A.rows, cols |-> B.cols, den |-> A.den * B.den,
   at |-> Rows(A.rows, B.cols, LAMBDA i, j : DotTo(A, B, i, j, A.cols))]

\* operator+ and operator- of two matrices
MAdd(A, B) ==
  [rows |-> A.rows, cols |-> A.cols, den |-> A.den * B.den,
   at |-> Rows(A.rows, A.cols,
               LAMBDA i, j : At(A, i, j) * B.den + At(B, i, j) * A.den)]

MSub(A, B) ==
  [rows |-> A.rows, cols |-> A.cols, den |-> A.den * B.den,
   at |-> Rows(A.rows, A.cols,
               LAMBDA i, j : At(A, i, j) * B.den - At(B, i, j) * A.den)]

\* A with row r and column c struck out
Minor(A, r, c) ==
  [rows |-> A.rows - 1, cols |-> A.cols - 1, den |-> A.den,
   at |-> Rows(A.rows - 1, A.cols - 1,
               LAMBDA i, j : At(A, IF i < r THEN i ELSE i + 1,
                                   IF j < c THEN j ELSE j + 1))]

Sign(k) == IF k % 2 = 0 THEN 1 ELSE -1

\* rows a and b of the array f exchanged
SwapRows(f, a, b) ==
  [i \in DOMAIN f |->
     IF i = a + 1 THEN f[b + 1] ELSE IF i = b + 1 THEN f[a + 1] ELSE f[i]]

RECURSIVE Bareiss(_, _, _, _, _)
\* fraction-free elimination of the k-th column of the size x size array f;
\* prev is the previous pivot and sgn the sign of the row exchanges so far
Bareiss(f, size, k, prev, sgn) ==
  IF k = size THEN sgn * prev
  ELSE LET cand == {r \in k .. (size - 1) : Entry(f, r, k) # 0}
       IN  IF cand = {} THEN 0
           ELSE LET r == CHOOSE x \in cand : \A y \in cand : x <= y
                    g == Tab(IF r = k THEN f ELSE SwapRows(f, r, k))
                    h == Rows(size, size,
                              LAMBDA i, j :
                                IF i > k /\ j > k
                                THEN (Entry(g, k, k) * Entry(g, i, j)
                                      - Entry(g, i, k) * Entry(g, k, j))
                                     \div prev
                                ELSE Entry(g, i, j))
                IN  Bareiss(h, size, k + 1, Entry(g, k, k),
                            IF r = k THEN sgn ELSE -sgn)

Abs(x) == IF x < 0 THEN -x ELSE x

RECURSIVE GCD(_, _)
\* greatest common divisor of two naturals
GCD(a, b) == IF b = 0 THEN a ELSE GCD(b, a % b)

RECURSIVE GcdRow(_, _, _)
\* greatest common divisor of acc and the first k entries of a row
GcdRow(row, k, acc) ==
  IF k = 0 \/ acc = 1 THEN acc
  ELSE GcdRow(row, k - 1, GCD(acc, Abs(row[k])))

RECURSIVE GcdOf(_, _, _)
\* greatest common divisor of acc and the entries of the first k rows of
\* the array f
GcdOf(f, k, acc) ==
  IF k = 0 \/ acc = 1 THEN acc
  ELSE GcdOf(f, k - 1, GcdRow(f[k], Len(f[k]), acc))

RECURSIVE Pow(_, _)
Pow(b, k) == IF k = 0 THEN 1 ELSE b * Pow(b, k - 1)

\* determinant of the numerators of a square matrix: the common factor g of
\* the entries is taken out first, det(g * M) = g^n * det(M)
Det(A) ==
  LET g == GcdOf(A.at, A.rows, 0)
  IN  IF A.rows = 0 THEN 1
      ELSE IF g = 0 THEN 0
      ELSE Pow(g, A.rows)
           * Bareiss(Rows(A.rows, A.rows,
                          LAMBDA i, j : Entry(A.at, i, j) \div g),
                     A.rows, 0, 1, 1)

\* Math::invert(A) fails on a singular matrix
invertFails(A) == Det(A) = 0

\* Math::invert(A): the inverse of num/den is den * adj(num) / det(num),
\* written in lowest terms
invert(A) ==
  LET d == Det(A)
      raw == Rows(A.rows, A.cols,
                  LAMBDA i, j : (IF d < 0 THEN -1 ELSE 1) * A.den
                                * Sign(i + j) * Det(Minor(A, j, i)))
      g == GcdOf(raw, A.rows, Abs(d))
      by == IF g = 0 THEN 1 ELSE g
  IN  [rows |-> A.rows, cols |-> A.cols,
       den |-> Abs(d) \div by,
       at |-> Rows(A.rows, A.cols, LAMBDA i, j : Entry(raw, i, j) \div by)]

\* ---------------------------------------------------------- Hessian builder
\* number of chain neighbours of atom a among `atoms' atoms
Degree(a, atoms) ==
  (IF a > 0 THEN 1 ELSE 0) + (IF a + 1 < atoms THEN 1 ELSE 0)

\* hessian(blocker): 3N x 3N, symmetric, every block row summing to zero;
\* the model is a chain of atoms with spring constant kappa between
\* neighbours and isotropic 3x3 blocks
hessian(atoms, kappa) ==
  Mat(3 * atoms, 3 * atoms,
      LAMBDA i, j :
        IF i % 3 # j % 3 THEN 0
        ELSE IF i \div 3 = j \div 3 THEN kappa * Degree(i \div 3, atoms)
        ELSE IF (i \div 3) - (j \div 3) \in {-1, 1} THEN -kappa
        ELSE 0)

\* the diagonal 3K x 3K mass matrix of K atoms, of masses 1, 2, 1, 2, ...
massMatrix(K) ==
  Mat(3 * K, 3 * K, LAMBDA i, j : IF i = j THEN 1 + ((i \div 3) % 2) ELSE 0)

\* --------------------------------------------------- eigenvector matrices
\* a matrix of r rows whose c columns are named by f
Vecs(r, c, f(_)) == [rows |-> r, cols |-> c, col |-> [j \in Idx(c) |-> f(j)]]

EmptyVecs == Vecs(0, 0, LAMBDA j : 0)

\* column j of a matrix the constructor allocated and nobody has written
Unfilled(j) == [by |-> "ctor", src |-> j, form |-> "raw"]

\* column j as the backend `by' returned it
Filled(by, j) == [by |-> by, src |-> j, form |-> "raw"]

\* reverseColumns(A): the column order reversed in place
reverseColumns(A) ==
  [A EXCEPT !.col = [j \in Idx(A.cols) |-> A.col[A.cols - 1 - j]]]

\* reverseRows(A): the row order reversed in place
reverseRows(A) ==
  [A EXCEPT !.at = [i \in DOMAIN A.at |-> A.at[A.rows + 1 - i]]]

\* ------------------------------------------------------------------ state
VARIABLES
  blocker_,      \* the model the Hessian is built from: [atoms, kappa]
  subset_size_,  \* number of atoms of the subsystem
  masses_,       \* the mass matrix; no rows when no masses were set
  hessian_, Hssp_, Msp_, eigenvals_, eigenvecs_,
  pc,            \* position of the caller in VSA::solve
  err,           \* the error that ended the run, "none" while there is none
  loc,           \* the locals of VSA::solve
  svdresult,     \* the tuple svd() returned
  ed,            \* the frame of VSA::eigenDecomp
  mw,            \* the frame of VSA::massWeight
  assigned,      \* the result members solve has assigned in this run
  trace,         \* the calls made so far in this run, in order
  published,     \* the results of the runs of solve that completed
  file,          \* the trajectory file an AmberTraj reads
  ifs,           \* the input stream of the AmberTraj
  traj,          \* the members of the AmberTraj
  hist,          \* the last calls of readFrame and what they returned
  anm,           \* the locals of main of anm
  neff,          \* the locals of mapStates of neff
  lipid          \* the locals of main of lipid_lifetime

fields == <<blocker_, subset_size_, masses_, hessian_, Hssp_, Msp_,
            eigenvals_, eigenvecs_>>
\* the state of an AmberTraj
amber == <<file, ifs, traj, hist>>
\* the state of the tools
tools == <<anm, neff, lipid>>

vars == <<blocker_, subset_size_, masses_, hessian_, Hssp_, Msp_,
          eigenvals_, eigenvecs_, pc, err, loc, svdresult, ed, mw,
          assigned, trace, published, file, ifs, traj, hist, anm, neff,
          lipid>>

\* the locals of solve before solve has set them
NoLocals ==
  [n |-> 0, l |-> 0, Hss |-> EmptyMat, Hee |-> EmptyMat, Hse |-> EmptyMat,
   Hes |-> EmptyMat, Heei |-> EmptyMat, Ms |-> EmptyMat, Me |-> EmptyMat,
   eigenpairs |-> <<EmptyMat, EmptyVecs>>, Us |-> EmptyVecs]

NoSvd == <<EmptyVecs, EmptyMat, EmptyVecs>>

\* a copy of the matrix `of' that a backend call may have overwritten
Copy(of, overwritten) == [of |-> of, overwritten |-> overwritten]

\* the parameters A, B, U and M are references: they hold the name of the
\* matrix passed, "" before the call
NoEd ==
  [A |-> "", B |-> "", AA |-> Copy("", FALSE), BB |-> Copy("", FALSE),
   n |-> 0, il |-> 0, iu |-> 0, m |-> 0, W |-> EmptyMat, Z |-> EmptyVecs,
   lwork |-> 0, work |-> 0, worklen |-> 0, info |-> 0,
   calls |-> <<>>,      \* history: the calls of dsygvx and their statuses
   solved |-> EmptyMat  \* history: W as the real solve left it
  ]

NoMw ==
  [U |-> "", M |-> "", R |-> Copy("", FALSE), UU |-> EmptyVecs, info |-> 0]

\* ------------------------------------------------- AmberTraj: the state
\* A trajectory file is a title line of `title' bytes (newline included),
\* then `frames' complete frames and possibly a truncated one.  A number
\* takes one byte and is followed by one byte of white space, so a frame of
\* natoms atoms is a line of 3 * natoms numbers (6 * natoms bytes), followed
\* in a periodic file by a box line of 3 numbers.  The tail is what follows
\* the last complete frame: nothing, a coordinate line cut short, or (in a
\* periodic file) the coordinates of a frame whose box line is missing.
\* Files have at least 2 atoms: a file of one atom per frame without boxes
\* is byte for byte a periodic file of half as many frames.
NoFile == [title |-> 0, natoms |-> 0, box |-> FALSE, frames |-> 0,
           tail |-> "none"]

\* a stream: the byte offset of the next read and the state bits
Closed == [pos |-> 0, eof |-> FALSE, fail |-> FALSE]

\* the frame buffer holds no complete frame of the file
Garbage == -1

\* the members of an AmberTraj; state and seq are history: whether init has
\* run, and whether every call after init was a sequential readFrame()
NoAmberTraj ==
  [state |-> "none", _natoms |-> 0, frame_offset |-> 0, frame_size |-> 0,
   _nframes |-> 0, periodic |-> FALSE, unread |-> FALSE, frame |-> Garbage,
   seq |-> TRUE]

\* no trajectory is open
NoTraj ==
  /\ file = NoFile
  /\ ifs = Closed
  /\ traj = NoAmberTraj
  /\ hist = <<>>

\* ----------------------------------------------------- tools: the state
\* a matrix of r rows kept row by row: row i is row f(i) of the matrix a
\* backend returned, multiplied by the rational num / den (den = 0 stands
\* for the infinity 1.0 / 0 gives)
ScaledRows(r, c, f(_)) == [rows |-> r, cols |-> c, at |-> [i \in 1 .. r |-> f(i - 1)]]

\* row j as the backend `by' returned it
RowOf(by, j) == [by |-> by, src |-> j, num |-> 1, den |-> 1]

\* the locals of main of anm; atoms is the size of the selection
NoAnm ==
  [pc |-> "none", atoms |-> 0, H |-> EmptyMat, U |-> EmptyVecs,
   S |-> EmptyMat, Vt |-> ScaledRows(0, 0, LAMBDA i : 0), n |-> 0, i |-> 0,
   Hi |-> <<>>]

\* the frame of mapStates of neff: its argument, its locals (j and k are
\* the positions of the two loops of lines 113-115), and as history the
\* writes to binmap made so far that fell outside of it
NoNeff ==
  [pc |-> "none", states |-> <<>>, maxbin |-> 0, binmap |-> <<>>, j |-> 0,
   k |-> 0, outside |-> {}]

\* the locals of main of lipid_lifetime from the probability loop on:
\* contacts (one time series of nframes values per lipid), maxdt, the loop
\* variables t, i, j and the two counters; as history the accesses made so
\* far that fell outside of a time series, and whether the bound
\* contacts[i].size() - t was computed with t larger than the size
NoLipid ==
  [pc |-> "none", nframes |-> 0, contacts |-> <<>>, maxdt |-> 0, t |-> 0,
   i |-> 0, j |-> 0, bound_tmp |-> 0, total_tmp |-> 0, outside |-> {},
   wrapped |-> FALSE]

\* no tool is running
NoTools ==
  /\ anm = NoAnm
  /\ neff = NoNeff
  /\ lipid = NoLipid

\* a VSA object after construction (and setMasses, when masses are used)
Init ==
  /\ blocker_ \in [atoms : 0 .. MaxAtoms, kappa : {0, MaxSpring}]
  /\ subset_size_ \in 0 .. MaxSubset
  /\ masses_ \in {EmptyMat}
                 \cup {massMatrix(K) : K \in {k \in 1 .. (MaxAtoms + 1) :
                                               k - blocker_.atoms \in {-1, 0, 1}}}
  /\ hessian_ = EmptyMat
  /\ Hssp_ = EmptyMat
  /\ Msp_ = EmptyMat
  /\ eigenvals_ = EmptyMat
  /\ eigenvecs_ = EmptyVecs
  /\ pc = "Unbuilt"
  /\ err = "none"
  /\ loc = NoLocals
  /\ svdresult = NoSvd
  /\ ed = NoEd
  /\ mw = NoMw
  /\ assigned = {}
  /\ trace = <<>>
  /\ published = <<>>
  /\ NoTraj
  /\ NoTools

\* the run ends with the error e, raised by the call `call'
Raise(e, calls) ==
  /\ pc' = "failed"
  /\ err' = e
  /\ trace' = trace \o calls

\* ------------------------------------------------------------ VSA::solve
\* buildHessian()
BuildHessian ==
  /\ pc = "Unbuilt"
  /\ hessian_' = hessian(blocker_.atoms, blocker_.kappa)
  /\ pc' = "HessianReady"
  /\ trace' = Append(trace, "buildHessian")
  /\ UNCHANGED <<published, amber, tools, blocker_, subset_size_, masses_, Hssp_, Msp_, eigenvals_,
                 eigenvecs_, err, loc, svdresult, ed, mw, assigned>>

\* Partition, with the environment block starting one row and column late
PartitionGap ==
  /\ pc = "HessianReady"
  /\ LET n == hessian_.cols
         l == subset_size_ * 3
     IN  IF submatrixFails(hessian_, Range(0, l), Range(0, l))
         THEN /\ Raise("submatrix", <<"submatrix(hessian_)">>)
              /\ loc' = [loc EXCEPT !.n = n, !.l = l]
         ELSE /\ loc' = [loc EXCEPT
                   !.n = n, !.l = l,
                   !.Hss = submatrix(hessian_, Range(0, l), Range(0, l)),
                   !.Hee = submatrix(hessian_, Range(IF l < n THEN l + 1 ELSE l, n),
                                     Range(IF l < n THEN l + 1 ELSE l, n)),
                   !.Hse = submatrix(hessian_, Range(0, l), Range(l, n)),
                   !.Hes = submatrix(hessian_, Range(l, n), Range(0, l))]
              /\ pc' = "Partitioned"
              /\ err' = err
              /\ trace' = trace \o <<"submatrix(hessian_)",
                                     "submatrix(hessian_)",
                                     "submatrix(hessian_)",
                                     "submatrix(hessian_)">>
  /\ UNCHANGED <<published, amber, tools, fields, svdresult, ed, mw, assigned>>

\* the four blocks of the Hessian at the boundary l = 3 * subset_size_
Partition ==
  /\ pc = "HessianReady"
  /\ LET n == hessian_.cols
         l == subset_size_ * 3
     IN  IF submatrixFails(hessian_, Range(0, l), Range(0, l))
         THEN /\ Raise("submatrix", <<"submatrix(hessian_)">>)
              /\ loc' = [loc EXCEPT !.n = n, !.l = l]
         ELSE /\ loc' = [loc EXCEPT
                   !.n = n, !.l = l,
                   !.Hss = submatrix(hessian_, Range(0, l), Range(0, l)),
                   !.Hee = submatrix(hessian_, Range(l, n), Range(l, n)),
                   !.Hse = submatrix(hessian_, Range(0, l), Range(l, n)),
                   !.Hes = submatrix(hessian_, Range(l, n), Range(0, l))]
              /\ pc' = "Partitioned"
              /\ err' = err
              /\ trace' = trace \o <<"submatrix(hessian_)",
                                     "submatrix(hessian_)",
                                     "submatrix(hessian_)",
                                     "submatrix(hessian_)">>
  /\ UNCHANGED <<published, amber, tools, fields, svdresult, ed, mw, assigned>>

\* Invert, started as soon as the Hessian is built
InvertEarly ==
  /\ pc \in {"HessianReady", "Partitioned"}
  /\ IF invertFails(loc.Hee)
     THEN /\ Raise("invert", <<"invert">>)
          /\ loc' = loc
     ELSE /\ loc' = [loc EXCEPT !.Heei = invert(loc.Hee)]
          /\ pc' = "Inverted"
          /\ err' = err
          /\ trace' = Append(trace, "invert")
  /\ UNCHANGED <<published, amber, tools, fields, svdresult, ed, mw, assigned>>

\* Invert, going on with whatever invert left when Hee is singular
InvertUnchecked ==
  /\ pc = "Partitioned"
  /\ loc' = [loc EXCEPT !.Heei = invert(loc.Hee)]
  /\ pc' = "Inverted"
  /\ err' = err
  /\ trace' = Append(trace, "invert")
  /\ UNCHANGED <<published, amber, tools, fields, svdresult, ed, mw, assigned>>

\* Heei = Math::invert(Hee)
Invert ==
  /\ pc = "Partitioned"
  /\ IF invertFails(loc.Hee)
     THEN /\ Raise("invert", <<"invert">>)
          /\ loc' = loc
     ELSE /\ loc' = [loc EXCEPT !.Heei = invert(loc.Hee)]
          /\ pc' = "Inverted"
          /\ err' = err
          /\ trace' = Append(trace, "invert")
  /\ UNCHANGED <<published, amber, tools, fields, svdresult, ed, mw, assigned>>

\* Effective, with the inverse of Hee left out of the product
EffectiveNoInverse ==
  /\ pc = "Inverted"
  /\ Hssp_' = MSub(loc.Hss, MMMultiply(loc.Hse, loc.Hes))
  /\ pc' = "EffectiveReady"
  /\ trace' = trace \o <<"multiply", "multiply", "subtract">>
  /\ UNCHANGED <<published, amber, tools, blocker_, subset_size_, masses_, hessian_, Msp_, eigenvals_,
                 eigenvecs_, err, loc, svdresult, ed, mw, assigned>>

\* Hssp_ = Hss - Hse * Heei * Hes
Effective ==
  /\ pc = "Inverted"
  /\ Hssp_' = MSub(loc.Hss, MMMultiply(MMMultiply(loc.Hse, loc.Heei), loc.Hes))
  /\ pc' = "EffectiveReady"
  /\ trace' = trace \o <<"multiply", "multiply", "subtract">>
  /\ UNCHANGED <<published, amber, tools, blocker_, subset_size_, masses_, hessian_, Msp_, eigenvals_,
                 eigenvecs_, err, loc, svdresult, ed, mw, assigned>>

RECURSIVE Descending(_, _)
\* the singular values the SVD can return for k of them: the non-increasing
\* sequences of length k over 0 .. top
Descending(k, top) ==
  IF k = 0 THEN {<<>>}
  ELSE UNION {{<<v>> \o s : s \in Descending(k - 1, v)} : v \in 0 .. top}

\* Svd, taken whether or not masses are set
SvdAlways ==
  /\ pc = "EffectiveReady"
  /\ \E s \in Descending(Hssp_.rows, MaxVal) :
       svdresult' =
         <<Vecs(Hssp_.rows, Hssp_.rows, LAMBDA j : Filled("svd.U", j)),
           Mat(Hssp_.rows, 1, LAMBDA i, j : s[i + 1]),
           Vecs(Hssp_.rows, Hssp_.rows, LAMBDA j : Filled("svd.Vt", j))>>
  /\ pc' = "SvdDone"
  /\ trace' = Append(trace, "svd")
  /\ UNCHANGED <<published, amber, tools, fields, err, loc, ed, mw, assigned>>

\* svdresult = svd(Hssp_), taken when no masses are set
Svd ==
  /\ pc = "EffectiveReady"
  /\ masses_.rows = 0
  /\ \E s \in Descending(Hssp_.rows, MaxVal) :
       svdresult' =
         <<Vecs(Hssp_.rows, Hssp_.rows, LAMBDA j : Filled("svd.U", j)),
           Mat(Hssp_.rows, 1, LAMBDA i, j : s[i + 1]),
           Vecs(Hssp_.rows, Hssp_.rows, LAMBDA j : Filled("svd.Vt", j))>>
  /\ pc' = "SvdDone"
  /\ trace' = Append(trace, "svd")
  /\ UNCHANGED <<published, amber, tools, fields, err, loc, ed, mw, assigned>>

\* SvdStore, with the singular values reversed and the vectors left as is
SvdStoreHalf ==
  /\ pc = "SvdDone"
  /\ eigenvecs_' = svdresult[1]
  /\ eigenvals_' = reverseRows(svdresult[2])
  /\ assigned' = assigned \cup {"eigenvecs_", "eigenvals_"}
  /\ pc' = "Solved"
  /\ trace' = trace \o <<"reverseColumns", "reverseRows">>
  /\ published' = Append(published, [eigenvals |-> eigenvals_',
                                     eigenvecs |-> eigenvecs_'])
  /\ UNCHANGED <<amber, tools, blocker_, subset_size_, masses_, hessian_, Hssp_, Msp_,
                 err, loc, svdresult, ed, mw>>

\* the results of the unit-mass path: both are stored, then reversed
SvdStore ==
  /\ pc = "SvdDone"
  /\ eigenvecs_' = reverseColumns(svdresult[1])
  /\ eigenvals_' = reverseRows(svdresult[2])
  /\ assigned' = assigned \cup {"eigenvecs_", "eigenvals_"}
  /\ pc' = "Solved"
  /\ trace' = trace \o <<"reverseColumns", "reverseRows">>
  /\ published' = Append(published, [eigenvals |-> eigenvals_',
                                     eigenvecs |-> eigenvecs_'])
  /\ UNCHANGED <<amber, tools, blocker_, subset_size_, masses_, hessian_, Hssp_, Msp_,
                 err, loc, svdresult, ed, mw>>

\* Msp_ = Ms + Hse * Heei * Me * Heei * Hes, taken when masses are set
EffectiveMass ==
  /\ pc = "EffectiveReady"
  /\ masses_.rows # 0
  /\ LET n == loc.n
         l == loc.l
     IN  IF submatrixFails(masses_, Range(0, l), Range(0, l))
         THEN /\ Raise("submatrix", <<"submatrix(masses_)">>)
              /\ UNCHANGED <<loc, Msp_>>
         ELSE IF submatrixFails(masses_, Range(l, n), Range(l, n))
         THEN /\ Raise("submatrix", <<"submatrix(masses_)",
                                      "submatrix(masses_)">>)
              /\ loc' = [loc EXCEPT
                   !.Ms = submatrix(masses_, Range(0, l), Range(0, l))]
              /\ Msp_' = Msp_
         ELSE LET Ms == submatrix(masses_, Range(0, l), Range(0, l))
                  Me == submatrix(masses_, Range(l, n), Range(l, n))
              IN  /\ loc' = [loc EXCEPT !.Ms = Ms, !.Me = Me]
                  /\ Msp_' = MAdd(Ms,
                       MMMultiply(MMMultiply(MMMultiply(MMMultiply(
                         loc.Hse, loc.Heei), Me), loc.Heei), loc.Hes))
                  /\ pc' = "MassReady"
                  /\ err' = err
                  /\ trace' = trace \o <<"submatrix(masses_)",
                                         "submatrix(masses_)", "multiply",
                                         "multiply", "multiply", "multiply",
                                         "add">>
  /\ UNCHANGED <<published, amber, tools, blocker_, subset_size_, masses_, hessian_, Hssp_,
                 eigenvals_, eigenvecs_, svdresult, ed, mw, assigned>>

\* ------------------------------------------------------ VSA::eigenDecomp
\* the first eigenpair asked of dsygvx (1-based): the six lowest are left out
il == 7
\* the number of eigenpairs that are never asked for
Trivial == 6

\* dsygvx accepts the index range il..iu of an n x n problem (RANGE = 'I')
\* when 1 <= il <= iu <= n, or when n = 0, il = 1 and iu = 0
RangeValid(n, lo, hi) ==
  IF n = 0 THEN lo = 1 /\ hi = 0 ELSE 1 <= lo /\ lo <= hi /\ hi <= n

\* DsygvxInfo, without the check of the arguments
DsygvxInfoLax(n, lo, hi) == {0, 1}

\* the statuses dsygvx can report: -12 names the 12th argument, il; a
\* positive status is a failure to converge or a B that is not positive
\* definite
DsygvxInfo(n, lo, hi) == IF RangeValid(n, lo, hi) THEN {0, 1} ELSE {-12}

\* the workspace lengths a sizing query can report for an n x n problem
WorkSize(n) == {8 * n, 9 * n}

\* the eigenpair counts the solver can report: all that were asked for, or
\* one less
FoundCount(n) == {k \in 0 .. n : k - (n - Trivial) \in {-1, 0}}

\* entry of eigenDecomp(A, B) up to the sizing query and its check
EdQuery ==
  /\ pc = "MassReady"
  /\ \E fill \in {0, MaxVal}, info \in DsygvxInfo(Hssp_.rows, il, Hssp_.rows),
        size \in WorkSize(Hssp_.rows) :
       LET n == Hssp_.rows
           frame == [A |-> "Hssp_", B |-> "Msp_",
                     AA |-> Copy("A", FALSE), BB |-> Copy("B", FALSE),
                     n |-> n, il |-> il, iu |-> n, m |-> 0,
                     W |-> Mat(n, 1, LAMBDA i, j : fill),
                     Z |-> Vecs(n, n, Unfilled),
                     lwork |-> -1, work |-> IF info = 0 THEN size ELSE 0,
                     worklen |-> 1, info |-> info,
                     calls |-> <<[lwork |-> -1, worklen |-> 1,
                                  args |-> <<Copy("A", FALSE),
                                             Copy("B", FALSE), n, il, n>>,
                                  info |-> info]>>,
                     solved |-> EmptyMat]
       IN  /\ ed' = frame
           /\ IF info # 0
              THEN Raise("dsygvx", <<"eigenDecomp", "dsygvx">>)
              ELSE /\ pc' = "EdQueried"
                   /\ err' = err
                   /\ trace' = trace \o <<"eigenDecomp", "dsygvx">>
  /\ UNCHANGED <<published, amber, tools, fields, loc, svdresult, mw, assigned>>

\* EdSolve, with a workspace one longer than the query reported
EdSolveOversized ==
  /\ pc = "EdQueried"
  /\ \E info \in DsygvxInfo(ed.n, ed.il, ed.iu), m \in FoundCount(ed.n) :
     \E w \in [Idx(m) -> 0 .. MaxVal] :
       LET lwork == ed.work + 1
           call == [lwork |-> lwork, worklen |-> lwork,
                    args |-> <<ed.AA, ed.BB, ed.n, ed.il, ed.iu>>,
                    info |-> info]
           W == [ed.W EXCEPT !.at =
                   [i \in DOMAIN ed.W.at |->
                      IF i - 1 < m THEN <<w[i - 1]>> ELSE ed.W.at[i]]]
       IN  IF info # 0
           THEN /\ ed' = [ed EXCEPT !.lwork = lwork, !.worklen = lwork,
                                    !.info = info,
                                    !.calls = Append(ed.calls, call)]
                /\ Raise("dsygvx", <<"dsygvx">>)
           ELSE /\ ed' = [ed EXCEPT
                     !.lwork = lwork, !.worklen = lwork, !.info = info,
                     !.calls = Append(ed.calls, call),
                     !.m = m,
                     !.AA = Copy("A", TRUE), !.BB = Copy("B", TRUE),
                     !.W = W, !.solved = W,
                     !.Z = [ed.Z EXCEPT !.col =
                              [j \in Idx(ed.n) |->
                                 IF j < m THEN Filled("dsygvx", j)
                                 ELSE ed.Z.col[j]]]]
                /\ pc' = "EdSolved"
                /\ err' = err
                /\ trace' = Append(trace, "dsygvx")
  /\ UNCHANGED <<published, amber, tools, fields, loc, svdresult, mw, assigned>>

\* the workspace is allocated and dsygvx called again: the real solve
EdSolve ==
  /\ pc = "EdQueried"
  /\ \E info \in DsygvxInfo(ed.n, ed.il, ed.iu), m \in FoundCount(ed.n) :
     \E w \in [Idx(m) -> 0 .. MaxVal] :
       LET lwork == ed.work
           call == [lwork |-> lwork, worklen |-> lwork,
                    args |-> <<ed.AA, ed.BB, ed.n, ed.il, ed.iu>>,
                    info |-> info]
           W == [ed.W EXCEPT !.at =
                   [i \in DOMAIN ed.W.at |->
                      IF i - 1 < m THEN <<w[i - 1]>> ELSE ed.W.at[i]]]
       IN  IF info # 0
           THEN /\ ed' = [ed EXCEPT !.lwork = lwork, !.worklen = lwork,
                                    !.info = info,
                                    !.calls = Append(ed.calls, call)]
                /\ Raise("dsygvx", <<"dsygvx">>)
           ELSE /\ ed' = [ed EXCEPT
                     !.lwork = lwork, !.worklen = lwork, !.info = info,
                     !.calls = Append(ed.calls, call),
                     !.m = m,
                     !.AA = Copy("A", TRUE), !.BB = Copy("B", TRUE),
                     !.W = W, !.solved = W,
                     !.Z = [ed.Z EXCEPT !.col =
                              [j \in Idx(ed.n) |->
                                 IF j < m THEN Filled("dsygvx", j)
                                 ELSE ed.Z.col[j]]]]
                /\ pc' = "EdSolved"
                /\ err' = err
                /\ trace' = Append(trace, "dsygvx")
  /\ UNCHANGED <<published, amber, tools, fields, loc, svdresult, mw, assigned>>

\* EdCount, without the comparison of m with n-6
EdCountUnchecked ==
  /\ pc = "EdSolved"
  /\ pc' = "EdCounted"
  /\ err' = err
  /\ trace' = trace
  /\ UNCHANGED <<published, amber, tools, fields, loc, svdresult, ed, mw, assigned>>

\* if (m != n-6) exit(-10)
EdCount ==
  /\ pc = "EdSolved"
  /\ IF ed.m # ed.n - Trivial
     THEN Raise("eigenpairs", <<>>)
     ELSE /\ pc' = "EdCounted"
          /\ err' = err
          /\ trace' = trace
  /\ UNCHANGED <<published, amber, tools, fields, loc, svdresult, ed, mw, assigned>>

\* key of row i of the column vector W
Key(W, i) == At(W, i, 0)

\* the sorted index list s with the row i put after every row whose key is
\* not larger
InsertIndex(W, s, i) ==
  LET pos == Cardinality({k \in 1 .. Len(s) : Key(W, s[k]) <= Key(W, i)})
  IN  SubSeq(s, 1, pos) \o <<i>> \o SubSeq(s, pos + 1, Len(s))

RECURSIVE SortedTo(_, _)
\* the rows 0 .. k-1 of W in ascending order of key, equal keys in row order
SortedTo(W, k) ==
  IF k = 0 THEN <<>> ELSE InsertIndex(W, SortedTo(W, k - 1), k - 1)

\* sortedIndex(W): the row indices of W, sorted ascending on the entry
sortedIndex(W) == SortedTo(W, W.rows)

\* permuteRows(A, indices): row i of the result is row indices[i] of A
permuteRows(A, indices) ==
  [A EXCEPT !.at = [i \in DOMAIN A.at |-> A.at[indices[i] + 1]]]

\* permuteColumns(A, indices): column i of the result is column indices[i]
permuteColumns(A, indices) ==
  [A EXCEPT !.col = [j \in Idx(A.cols) |-> A.col[indices[j + 1]]]]

\* EdSort, with the eigenvalues sorted and the eigenvectors left in place
EdSortValuesOnly ==
  /\ pc = "EdCounted"
  /\ LET indices == sortedIndex(ed.W)
         W == permuteRows(ed.W, indices)
         Z == ed.Z
     IN  /\ ed' = [ed EXCEPT !.W = W, !.Z = Z]
         /\ loc' = [loc EXCEPT !.eigenpairs = <<W, Z>>]
  /\ pc' = "EdReturned"
  /\ trace' = trace \o <<"sortedIndex", "permuteRows", "permuteColumns">>
  /\ UNCHANGED <<published, amber, tools, fields, err, svdresult, mw, assigned>>

\* the eigenpairs are sorted on the eigenvalue and returned to solve
EdSort ==
  /\ pc = "EdCounted"
  /\ LET indices == sortedIndex(ed.W)
         W == permuteRows(ed.W, indices)
         Z == permuteColumns(ed.Z, indices)
     IN  /\ ed' = [ed EXCEPT !.W = W, !.Z = Z]
         /\ loc' = [loc EXCEPT !.eigenpairs = <<W, Z>>]
  /\ pc' = "EdReturned"
  /\ trace' = trace \o <<"sortedIndex", "permuteRows", "permuteColumns">>
  /\ UNCHANGED <<published, amber, tools, fields, err, svdresult, mw, assigned>>

\* StoreEigenvals, storing the raw eigenvectors as well
StoreBoth ==
  /\ pc = "EdReturned"
  /\ eigenvals_' = loc.eigenpairs[1]
  /\ eigenvecs_' = loc.eigenpairs[2]
  /\ loc' = [loc EXCEPT !.Us = loc.eigenpairs[2]]
  /\ assigned' = assigned \cup {"eigenvals_", "eigenvecs_"}
  /\ pc' = "Stored"
  /\ UNCHANGED <<published, amber, tools, blocker_, subset_size_, masses_, hessian_, Hssp_, Msp_,
                 err, svdresult, ed, mw, trace>>

\* eigenvals_ = get<0>(eigenpairs); Us = get<1>(eigenpairs)
StoreEigenvals ==
  /\ pc = "EdReturned"
  /\ eigenvals_' = loc.eigenpairs[1]
  /\ loc' = [loc EXCEPT !.Us = loc.eigenpairs[2]]
  /\ assigned' = assigned \cup {"eigenvals_"}
  /\ pc' = "Stored"
  /\ UNCHANGED <<published, amber, tools, blocker_, subset_size_, masses_, hessian_, Hssp_, Msp_,
                 eigenvecs_, err, svdresult, ed, mw, trace>>

\* ------------------------------------------------------- VSA::massWeight
\* the statuses dpotrf can report: positive when a leading minor is not
\* positive definite
DpotrfInfo == {0, 1}

\* a column after the triangular multiply R * u
Weighted(c) == [c EXCEPT !.form = "R*u"]

\* a column after normalizeColumns
Normalized(c) == [c EXCEPT !.form = "normalized(" \o c.form \o ")"]

\* normalizeColumns(A): every column scaled to norm 1, in place
normalizeColumns(A) ==
  [A EXCEPT !.col = [j \in Idx(A.cols) |-> Normalized(A.col[j])]]

\* MwCholesky, without the test of the status of dpotrf
MwCholeskyUnchecked ==
  /\ pc = "Stored"
  /\ \E info \in DpotrfInfo :
       /\ mw' = [U |-> "Us", M |-> "Msp_", R |-> Copy("M", TRUE),
                 UU |-> EmptyVecs, info |-> info]
       /\ pc' = "MwFactored"
       /\ err' = err
       /\ trace' = trace \o <<"massWeight", "dpotrf">>
  /\ UNCHANGED <<published, amber, tools, fields, loc, svdresult, ed, assigned>>

\* MwCholesky, with dpotrf factoring M itself: R shares the storage of M
MwCholeskyInPlace ==
  /\ pc = "Stored"
  /\ \E info \in DpotrfInfo :
       /\ mw' = [U |-> "Us", M |-> "Msp_", R |-> Copy("", TRUE),
                 UU |-> EmptyVecs, info |-> info]
       /\ IF info # 0
          THEN Raise("dpotrf", <<"massWeight", "dpotrf">>)
          ELSE /\ pc' = "MwFactored"
               /\ err' = err
               /\ trace' = trace \o <<"massWeight", "dpotrf">>
  /\ Msp_' = [Msp_ EXCEPT !.at = [i \in DOMAIN Msp_.at |->
                                   [j \in DOMAIN Msp_.at[i] |->
                                      IF j < i THEN 0 ELSE Msp_.at[i][j] + 1]]]
  /\ UNCHANGED <<published, amber, tools, blocker_, subset_size_, masses_, hessian_,
                 Hssp_, eigenvals_, eigenvecs_, loc, svdresult, ed, assigned>>

\* entry of massWeight(Us, Msp_): the Cholesky factor of a copy of M
MwCholesky ==
  /\ pc = "Stored"
  /\ \E info \in DpotrfInfo :
       /\ mw' = [U |-> "Us", M |-> "Msp_", R |-> Copy("M", TRUE),
                 UU |-> EmptyVecs, info |-> info]
       /\ IF info # 0
          THEN Raise("dpotrf", <<"massWeight", "dpotrf">>)
          ELSE /\ pc' = "MwFactored"
               /\ err' = err
               /\ trace' = trace \o <<"massWeight", "dpotrf">>
  /\ UNCHANGED <<published, amber, tools, fields, loc, svdresult, ed, assigned>>

\* UU = R * U by dtrmm on a copy of U
MwMultiply ==
  /\ pc = "MwFactored"
  /\ mw' = [mw EXCEPT !.UU =
              [loc.Us EXCEPT !.col = [j \in Idx(loc.Us.cols) |->
                                        Weighted(loc.Us.col[j])]]]
  /\ pc' = "MwMultiplied"
  /\ trace' = Append(trace, "dtrmm")
  /\ UNCHANGED <<published, amber, tools, fields, err, loc, svdresult, ed, assigned>>

\* normalizeColumns(UU); the result is stored in eigenvecs_
MwNormalize ==
  /\ pc = "MwMultiplied"
  /\ mw' = [mw EXCEPT !.UU = normalizeColumns(mw.UU)]
  /\ eigenvecs_' = normalizeColumns(mw.UU)
  /\ assigned' = assigned \cup {"eigenvecs_"}
  /\ pc' = "Solved"
  /\ trace' = Append(trace, "normalizeColumns")
  /\ published' = Append(published, [eigenvals |-> eigenvals_,
                                     eigenvecs |-> eigenvecs_'])
  /\ UNCHANGED <<amber, tools, blocker_, subset_size_, masses_, hessian_, Hssp_, Msp_,
                 eigenvals_, err, loc, svdresult, ed>>

Next ==
  \/ BuildHessian
  \/ Partition
  \/ Invert
  \/ Effective
  \/ Svd
  \/ SvdStore
  \/ EffectiveMass
  \/ EdQuery
  \/ EdSolve
  \/ EdCount
  \/ EdSort
  \/ StoreEigenvals
  \/ MwCholesky
  \/ MwMultiply
  \/ MwNormalize

Spec == Init /\ [][Next]_vars

\* solve() called once more on an object that has solved: solve tests nothing
\* before it starts over, and its locals are new in every call
SolveAgain ==
  /\ pc = "Solved"
  /\ Len(published) < MaxSolves
  /\ pc' = "Unbuilt"
  /\ loc' = NoLocals
  /\ svdresult' = NoSvd
  /\ ed' = NoEd
  /\ mw' = NoMw
  /\ assigned' = {}
  /\ trace' = <<>>
  /\ UNCHANGED <<fields, err, published, amber, tools>>

NextAgain ==
  \/ Next
  \/ SolveAgain

\* a VSA object whose caller may call solve() again
SpecAgain == Init /\ [][NextAgain]_vars

\* ------------------------------------------------ AmberTraj: the stream
\* the state of a VSA object, which the trajectory reader does not touch
vsa == <<fields, pc, err, loc, svdresult, ed, mw, assigned, trace,
         published>>

\* numbers per frame of the file f
TokensPerFrame(f) == 3 * f.natoms + (IF f.box THEN 3 ELSE 0)

\* numbers of the truncated frame at the end of f: a cut coordinate line
\* holds 4 numbers, fewer than the 6 of the smallest frame
TailTokens(f) ==
  CASE f.tail = "none" -> 0
    [] f.tail = "coords" -> 4
    [] f.tail = "nobox" -> 3 * f.natoms

\* numbers in the file f after the title
Tokens(f) == f.frames * TokensPerFrame(f) + TailTokens(f)

\* the size of f in bytes; the last number is followed by a newline
EndOfFile(f) == f.title + 2 * Tokens(f)

\* the trajectory files
Files ==
  {f \in [title : 1 .. MaxTitle, natoms : 2 .. MaxNatoms, box : BOOLEAN,
          frames : 0 .. MaxFrames, tail : {"none", "coords", "nobox"}] :
     f.tail = "nobox" => f.box}

\* stream >> x1 >> ... >> xcount on the file f: white space is skipped and
\* the numbers are read; a stream that is not good reads nothing and sets
\* failbit, and running out of numbers sets eofbit and failbit.  `first' is
\* the index of the first number read and `got' how many were read.
Extract(f, st, count) ==
  IF st.fail \/ st.eof
  THEN [ifs |-> [st EXCEPT !.fail = TRUE], got |-> 0, first |-> 0]
  ELSE LET first == (st.pos - f.title + 1) \div 2
           avail == Tokens(f) - first
       IN  IF avail >= count
           THEN [ifs |-> [st EXCEPT !.pos = f.title + 2 * (first + count) - 1],
                 got |-> count, first |-> first]
           ELSE [ifs |-> [pos |-> EndOfFile(f), eof |-> TRUE, fail |-> TRUE],
                 got |-> IF avail > 0 THEN avail ELSE 0, first |-> first]

\* the frame buffer after the extraction r of the coordinates of a frame:
\* the index of the frame of f whose coordinates were read, or Garbage when
\* the read was cut short or did not start at the start of a frame
FrameHeld(f, r) ==
  IF r.got = 3 * f.natoms /\ r.first % TokensPerFrame(f) = 0
  THEN r.first \div TokensPerFrame(f)
  ELSE Garbage

RECURSIVE CountFrames(_, _, _)
\* the loop that counts the frames: n is incremented, the stream positioned
\* at n * frame_size + frame_offset and a number read, until a read fails
CountFrames(f, frame_size, n) ==
  IF (n * frame_size + 1) \div 2 >= Tokens(f) THEN n
  ELSE CountFrames(f, frame_size, n + 1)

\* ----------------------------------------------- AmberTraj: the reader
\* an AmberTraj under construction: the file f is open, init has not run
Opened ==
  /\ file \in Files
  /\ ifs = Closed
  /\ traj = [NoAmberTraj EXCEPT !.state = "opened", !._natoms = file.natoms]
  /\ hist = <<>>

\* the last two calls of readFrame, oldest first
Last2(h) == IF Len(h) > 2 THEN SubSeq(h, Len(h) - 1, Len(h)) ELSE h

\* AmberTraj::init: scan the first frame, find out whether a box line
\* follows it, measure the frame, count the frames, and leave the stream at
\* the second frame with the first one held in the frame buffer
AmberInit ==
  /\ traj.state = "opened"
  /\ LET titled == [pos |-> file.title, eof |-> FALSE, fail |-> FALSE]
         frame_offset == file.title
         first == Extract(file, titled, 3 * traj._natoms)
         fpos == first.ifs.pos
         \* numbers on the line after the first coordinate line
         line == Tokens(file) - 3 * traj._natoms
         second == IF file.box THEN 3
                   ELSE IF line > 3 * traj._natoms THEN 3 * traj._natoms
                   ELSE line
         periodic == second <= 3
         frame_size == IF periodic THEN fpos + 1 + 2 * second - frame_offset
                       ELSE fpos - frame_offset
         _nframes == CountFrames(file, frame_size, 1)
     IN  IF first.ifs.fail \/ line <= 0
         THEN /\ traj' = [traj EXCEPT !.state = "cannot scan"]
              /\ ifs' = [first.ifs EXCEPT !.fail = TRUE]
         ELSE /\ traj' = [state |-> "ready", _natoms |-> traj._natoms,
                          frame_offset |-> frame_offset,
                          frame_size |-> frame_size, _nframes |-> _nframes,
                          periodic |-> periodic, unread |-> TRUE,
                          frame |-> FrameHeld(file, first), seq |-> TRUE]
              /\ ifs' = [pos |-> frame_offset + frame_size, eof |-> FALSE,
                         fail |-> FALSE]
  /\ UNCHANGED <<file, hist, vsa, tools>>

\* readFrame(void) from line 108 on without the test of lines 123-124:
\* end-of-file among the coordinates runs into the failure test of line 132
ReadFromStreamNoEofTest(f, st, tr) ==
  IF st.eof
  THEN [ifs |-> st, traj |-> tr, ret |-> "false", read |-> FALSE,
        at |-> "entry"]
  ELSE LET c == Extract(f, st, 3 * tr._natoms)
           tr1 == [tr EXCEPT !.frame = FrameHeld(f, c)]
           b == IF tr.periodic THEN Extract(f, c.ifs, 3).ifs ELSE c.ifs
       IN  IF b.fail
           THEN [ifs |-> b, traj |-> tr1, ret |-> "io error", read |-> TRUE,
                 at |-> IF c.ifs.fail THEN "coords" ELSE "box"]
           ELSE [ifs |-> b, traj |-> tr1, ret |-> "true", read |-> TRUE,
                 at |-> "done"]

\* readFrame(void) from line 108 on, on the stream st and the members tr:
\* the stream and the members after it, what it returns or throws, whether
\* it read from the stream, and where it ended
ReadFromStream(f, st, tr) ==
  IF st.eof
  THEN [ifs |-> st, traj |-> tr, ret |-> "false", read |-> FALSE,
        at |-> "entry"]
  ELSE LET c == Extract(f, st, 3 * tr._natoms)
           tr1 == [tr EXCEPT !.frame = FrameHeld(f, c)]
           b == IF tr.periodic THEN Extract(f, c.ifs, 3).ifs ELSE c.ifs
       IN  IF c.ifs.eof
           THEN [ifs |-> c.ifs, traj |-> tr1, ret |-> "false",
                 read |-> TRUE, at |-> "coords"]
           ELSE IF b.fail
           THEN [ifs |-> b, traj |-> tr1, ret |-> "io error", read |-> TRUE,
                 at |-> IF c.ifs.fail THEN "coords" ELSE "box"]
           ELSE [ifs |-> b, traj |-> tr1, ret |-> "true", read |-> TRUE,
                 at |-> "done"]

\* readFrame(void) without the assignment of line 104: the unread flag
\* stays set
ReadSeqKeepsUnread(f, st, tr) ==
  IF tr.unread
  THEN [ifs |-> st, traj |-> tr, ret |-> "true", read |-> FALSE,
        at |-> "unread"]
  ELSE ReadFromStream(f, st, tr)

\* the body of readFrame(void): the frame init read is handed out once,
\* later frames are read from the stream
ReadSeq(f, st, tr) ==
  IF tr.unread
  THEN [ifs |-> st, traj |-> [tr EXCEPT !.unread = FALSE], ret |-> "true",
        read |-> FALSE, at |-> "unread"]
  ELSE ReadFromStream(f, st, tr)

\* the record of a call in hist
Call(op, i, r, seek) ==
  [op |-> op, i |-> i, ret |-> r.ret, read |-> r.read, at |-> r.at,
   seek |-> seek, fresh |-> hist = <<>>, frame |-> r.traj.frame]

\* AmberTraj::readFrame(void)
ReadFrame ==
  /\ traj.state = "ready"
  /\ LET r == ReadSeq(file, ifs, traj)
     IN  /\ ifs' = r.ifs
         /\ traj' = r.traj
         /\ hist' = Last2(Append(hist, Call("readFrame()", -1, r, -1)))
  /\ UNCHANGED <<file, vsa, tools>>

\* AmberTraj::readFrame(i).  seekg on a stream whose failbit is set fails;
\* whether it first clears eofbit depends on the standard library.
ReadFrameAt(i) ==
  /\ traj.state = "ready"
  /\ \E clears \in BOOLEAN :
       LET tr1 == [traj EXCEPT !.unread = FALSE, !.seq = FALSE]
           fpos == i * traj.frame_size + traj.frame_offset
           sought == IF ifs.fail
                     THEN [ifs EXCEPT !.eof = ifs.eof /\ ~clears]
                     ELSE [pos |-> fpos, eof |-> FALSE, fail |-> FALSE]
           r == IF i = 0 /\ traj.unread
                THEN [ifs |-> ifs, traj |-> [traj EXCEPT !.seq = FALSE],
                      ret |-> "true", read |-> FALSE, at |-> "unread"]
                ELSE IF fpos < 0 \/ fpos >= traj._nframes
                THEN [ifs |-> ifs, traj |-> tr1, ret |-> "invalid frame",
                      read |-> FALSE, at |-> "check"]
                ELSE IF sought.fail
                THEN [ifs |-> sought, traj |-> tr1, ret |-> "cannot seek",
                      read |-> FALSE, at |-> "seek"]
                ELSE ReadSeq(file, sought, tr1)
           seek == IF r.at \in {"unread", "check"} THEN -1 ELSE fpos
       IN  /\ ifs' = r.ifs
           /\ traj' = r.traj
           /\ hist' = Last2(Append(hist, Call("readFrame(i)", i, r, seek)))
  /\ UNCHANGED <<file, vsa, tools>>

\* an AmberTraj is constructed on a file and its frames are read
InitAmber ==
  /\ blocker_ = [atoms |-> 0, kappa |-> 0]
  /\ subset_size_ = 0
  /\ masses_ = EmptyMat
  /\ hessian_ = EmptyMat
  /\ Hssp_ = EmptyMat
  /\ Msp_ = EmptyMat
  /\ eigenvals_ = EmptyMat
  /\ eigenvecs_ = EmptyVecs
  /\ pc = "Unbuilt"
  /\ err = "none"
  /\ loc = NoLocals
  /\ svdresult = NoSvd
  /\ ed = NoEd
  /\ mw = NoMw
  /\ assigned = {}
  /\ trace = <<>>
  /\ published = <<>>
  /\ Opened
  /\ NoTools

NextAmber ==
  \/ AmberInit
  \/ ReadFrame
  \/ \E i \in 0 .. (MaxFrames + 1) : ReadFrameAt(i)

SpecAmber == InitAmber /\ [][NextAmber]_vars

\* ------------------------------------------------------------ properties
\* the number of calls of `name' made so far
Count(name) == Cardinality({k \in DOMAIN trace : trace[k] = name})

Called(name) == Count(name) > 0

\* every call of b made so far came after at least k calls of a
Preceded(a, k, b) ==
  \A j \in DOMAIN trace :
    trace[j] = b => Cardinality({i \in 1 .. (j - 1) : trace[i] = a}) >= k

\* eigenDecomp has returned its eigenpairs to solve
Returned == loc.eigenpairs # NoLocals.eigenpairs

\* the run ended in an error
Failed == pc = "failed"

\* the statuses of the calls of dsygvx made so far
Statuses == {ed.calls[k].info : k \in DOMAIN ed.calls}

\* the state of the orchestrator's state machine at each position of solve
Phase(p) ==
  CASE p = "Unbuilt" -> 0
    [] p = "HessianReady" -> 1
    [] p \in {"Partitioned", "Inverted"} -> 2
    [] p = "Solved" -> 4
    [] OTHER -> 3

\* C1: eigenDecomp ends in the error exit whenever a call of the solver
\* reports a nonzero status and whenever the count m it reports differs from
\* N-6, N the dimension of the input; it returns eigenpairs only after two
\* calls of status 0 and m = N-6.
C1_EigenDecompFails ==
  /\ Statuses \ {0} # {} => Failed /\ err = "dsygvx" /\ ~Returned
  /\ (Len(ed.calls) = 2 /\ pc # "EdSolved" /\ ed.m # Hssp_.rows - 6)
       => Failed /\ ~Returned
  /\ Returned => /\ Len(ed.calls) = 2
                 /\ Statuses = {0}
                 /\ ed.m = Hssp_.rows - 6

C1_Witness ==
  /\ Failed /\ err = "eigenpairs"
  /\ Statuses = {0} /\ Len(ed.calls) = 2 /\ ed.m = Hssp_.rows - 7

\* C2 as stated: whenever a step of solve fails, solve has assigned neither
\* eigenvals_ nor eigenvecs_.
C2_NothingAssignedOnFailure ==
  (Failed /\ err \in {"invert", "dsygvx", "eigenpairs", "dpotrf"})
    => assigned = {}

\* C2 amended: whenever a step of solve fails, solve has not assigned
\* eigenvecs_, and has not assigned eigenvals_ either unless the failing step
\* is the Cholesky factorization of massWeight, which runs after eigenvals_
\* is stored.
C2_NoEigenvectorsOnFailure ==
  Failed => /\ "eigenvecs_" \notin assigned
            /\ eigenvecs_ = EmptyVecs
            /\ err # "dpotrf" => assigned = {} /\ eigenvals_ = EmptyMat
            /\ err = "dpotrf" => assigned = {"eigenvals_"}

C2_Witness ==
  /\ Failed /\ err = "dpotrf"
  /\ assigned = {"eigenvals_"} /\ eigenvals_ = loc.eigenpairs[1]

\* C3: solve branches once, after the effective Hessian is computed: without
\* masses it takes the SVD of Hssp_ and never builds Msp_, calls eigenDecomp
\* or massWeight; with masses it never takes the SVD, builds Msp_, calls
\* eigenDecomp on (Hssp_, Msp_) and then massWeight on the eigenvectors
\* eigenDecomp returned, against the same Msp_.
C3_BranchOnMasses ==
  /\ Count("svd") + Count("eigenDecomp") <= 1
  /\ Preceded("subtract", 1, "svd")
  /\ Preceded("subtract", 1, "submatrix(masses_)")
  /\ masses_.rows = 0 =>
       /\ ~Called("submatrix(masses_)") /\ ~Called("add")
       /\ ~Called("eigenDecomp") /\ ~Called("massWeight")
       /\ Msp_ = EmptyMat /\ ed = NoEd /\ mw = NoMw
       /\ pc = "Solved" => Count("svd") = 1
  /\ masses_.rows # 0 =>
       /\ ~Called("svd") /\ svdresult = NoSvd
       /\ Preceded("add", 1, "eigenDecomp")
       /\ Preceded("sortedIndex", 1, "massWeight")
       /\ Called("eigenDecomp") =>
            /\ ed.A = "Hssp_" /\ ed.B = "Msp_"
            /\ ed.n = Hssp_.rows /\ Msp_.rows = Hssp_.rows
       /\ Called("massWeight") =>
            /\ mw.M = "Msp_" /\ mw.M = ed.B
            /\ mw.U = "Us" /\ loc.Us = loc.eigenpairs[2] /\ Returned
       /\ pc = "Solved" => Count("eigenDecomp") = 1 /\ Count("massWeight") = 1

C3_Witness ==
  /\ pc = "Solved" /\ masses_.rows # 0
  /\ loc.Hee.rows > 0 /\ mw.M = "Msp_" /\ ed.A = "Hssp_"

\* the calls made so far respect the order of the state machine
C4_CallOrder ==
  /\ Preceded("buildHessian", 1, "submatrix(hessian_)")
  /\ Preceded("submatrix(hessian_)", 4, "invert")
  /\ Preceded("invert", 1, "multiply")
  /\ Preceded("subtract", 1, "svd")
  /\ Preceded("subtract", 1, "eigenDecomp")
  /\ Phase(pc) >= 1 /\ ~Failed => Count("buildHessian") = 1
  /\ Phase(pc) >= 2 /\ ~Failed => Count("submatrix(hessian_)") = 4
  /\ Phase(pc) >= 3 /\ ~Failed => Count("invert") = 1 /\ Count("subtract") = 1
  /\ pc = "Solved" => Count("svd") + Count("eigenDecomp") = 1

\* C4: a run of solve passes through Unbuilt, HessianReady, Partitioned,
\* EffectiveReady, Solved in that order, one state at a time and never back,
\* and a step starts only after the one before it is complete: the Hessian
\* is built before a block is extracted, the four blocks are extracted
\* before Hee is inverted, and Hssp_ is computed before the SVD or the
\* eigendecomposition starts.
C4_LinearStateMachine ==
  /\ []C4_CallOrder
  /\ [][pc' = "failed" \/ Phase(pc') \in {Phase(pc), Phase(pc) + 1}]_vars

C4_Witness ==
  /\ pc = "Solved" /\ Called("eigenDecomp")
  /\ Count("submatrix(hessian_)") = 4 /\ loc.Hee.rows > 0

\* C5: when the environment block Hee is singular, solve fails at the
\* inversion: it never computes the effective Hessian and never sets the
\* eigenvalues or the eigenvectors.
C5_SingularHeeFails ==
  Det(loc.Hee) = 0 =>
    /\ pc \in {"Partitioned", "failed"}
    /\ Failed => err = "invert"
    /\ ~Called("multiply") /\ ~Called("subtract")
    /\ Hssp_ = EmptyMat /\ assigned = {}
    /\ eigenvals_ = EmptyMat /\ eigenvecs_ = EmptyVecs

C5_Witness ==
  /\ Failed /\ err = "invert"
  /\ loc.Hee.rows > 0
  /\ \A i, j \in Idx(loc.Hee.rows) : At(loc.Hee, i, j) = 0

\* the caller's input is invalid: the boundary l lies beyond the Hessian,
\* or the mass matrix does not have one row per coordinate
BadConfiguration ==
  \/ 3 * subset_size_ > 3 * blocker_.atoms
  \/ masses_.rows # 0 /\ masses_.rows # 3 * blocker_.atoms

\* C6: for a boundary l outside [0, N] or a mass matrix whose size does not
\* match the atom count, solve does no matrix work: no Hessian build, block
\* extraction, inversion or multiplication.
C6_RejectedBeforeMatrixWork ==
  BadConfiguration =>
    /\ ~Called("buildHessian") /\ ~Called("submatrix(hessian_)")
    /\ ~Called("invert") /\ ~Called("multiply")
    /\ hessian_ = EmptyMat

\* C7: the eigenvalues eigenDecomp returns have length N-6 and the
\* eigenvector matrix N-6 columns, N the dimension of the input, and no
\* entry the solver did not fill is part of the result.
C7_ResultHasNMinus6Pairs ==
  Returned =>
    /\ loc.eigenpairs[1].rows = Hssp_.rows - 6
    /\ loc.eigenpairs[2].cols = Hssp_.rows - 6
    /\ \A j \in Idx(loc.eigenpairs[2].cols) :
         loc.eigenpairs[2].col[j].by = "dsygvx"
    /\ pc \in {"Stored", "MwFactored", "MwMultiplied", "Solved"} =>
         eigenvals_.rows = Hssp_.rows - 6

\* C8: whatever order the backend returns its eigenpairs in, the eigenvalues
\* eigenDecomp returns are non-decreasing, column i of the result is the
\* column the solver paired with the i-th returned eigenvalue, and equal
\* eigenvalues keep their relative order.
C8_SortedStablePairs ==
  Returned =>
    LET W == loc.eigenpairs[1]
        Z == loc.eigenpairs[2]
    IN  /\ \A i \in Idx(W.rows - 1) : Key(W, i) <= Key(W, i + 1)
        /\ W.rows = ed.n /\ Z.cols = ed.n
        /\ {Z.col[i].src : i \in Idx(Z.cols)} = Idx(ed.n)
        /\ \A i \in Idx(Z.cols) : Key(W, i) = Key(ed.solved, Z.col[i].src)
        /\ \A i \in Idx(Z.cols) :
             Z.col[i].src < ed.m <=> Z.col[i].by = "dsygvx"
        /\ \A i, j \in Idx(Z.cols) :
             (i < j /\ Key(W, i) = Key(W, j)) => Z.col[i].src < Z.col[j].src

C8_Witness ==
  /\ Returned
  /\ \E i, j \in Idx(ed.m) :
       /\ i < j /\ Key(ed.solved, i) > Key(ed.solved, j)
  /\ \E i, j \in Idx(ed.m) :
       /\ i < j /\ Key(ed.solved, i) = Key(ed.solved, j)

\* C9: in the path without masses the eigenvectors are the left singular
\* vectors and the eigenvalues the singular values, both in reversed order:
\* the pair at index i is the singular pair the SVD returned at n-1-i, and
\* all n = 3 * subset_size_ pairs are kept.
C9_SvdPairsReversed ==
  (pc = "Solved" /\ masses_.rows = 0) =>
    LET n == 3 * subset_size_
        U == svdresult[1]
        S == svdresult[2]
    IN  /\ eigenvals_.rows = n /\ eigenvals_.cols = 1
        /\ eigenvecs_.cols = n /\ eigenvecs_.rows = n
        /\ S.rows = n /\ U.cols = n
        /\ \A i \in Idx(n) :
             /\ Key(eigenvals_, i) = Key(S, n - 1 - i)
             /\ eigenvecs_.col[i] = U.col[n - 1 - i]
             /\ eigenvecs_.col[i] = Filled("svd.U", n - 1 - i)

C9_Witness ==
  /\ pc = "Solved" /\ masses_.rows = 0 /\ eigenvals_.rows >= 3
  /\ Key(svdresult[2], 0) > Key(svdresult[2], eigenvals_.rows - 1)

\* the calls massWeight has made so far, in order
MwCalls ==
  SelectSeq(trace, LAMBDA c : c \in {"dpotrf", "dtrmm", "normalizeColumns"})

\* C10: massWeight factors a copy of M, then multiplies a copy of U from
\* the left by the factor, then normalizes the columns of the product; when
\* the factorization reports a nonzero status it fails before any
\* multiplication or normalization and returns no eigenvectors.
C10_MassWeightOrder ==
  /\ MwCalls \in {<<>>, <<"dpotrf">>, <<"dpotrf", "dtrmm">>,
                  <<"dpotrf", "dtrmm", "normalizeColumns">>}
  /\ Called("dpotrf") => mw.M = "Msp_" /\ mw.U = "Us" /\ mw.R.of = "M"
  /\ mw.info # 0 =>
       /\ Failed /\ err = "dpotrf"
       /\ MwCalls = <<"dpotrf">>
       /\ mw.UU = EmptyVecs /\ eigenvecs_ = EmptyVecs
  /\ Called("dtrmm") =>
       /\ mw.info = 0
       /\ mw.UU.cols = loc.Us.cols
  /\ Called("normalizeColumns") =>
       /\ pc = "Solved"
       /\ eigenvecs_ = mw.UU
       /\ \A j \in Idx(loc.Us.cols) :
            mw.UU.col[j] = Normalized(Weighted(loc.Us.col[j]))

C10_Witness ==
  /\ Failed /\ mw.info # 0
  /\ MwCalls = <<"dpotrf">> /\ Returned

\* C11: eigenDecomp calls the solver first as a sizing query (lwork = -1)
\* and, only when the query reports status 0, a second time with a workspace
\* of exactly the length the query reported and the same problem arguments;
\* the real solve never comes before the query nor with another length.
C11_TwoPassProtocol ==
  /\ Len(ed.calls) <= 2
  /\ Count("dsygvx") = Len(ed.calls)
  /\ Len(ed.calls) >= 1 =>
       /\ ed.calls[1].lwork = -1 /\ ed.calls[1].worklen = 1
       /\ ed.calls[1].info = 0 => ed.work \in WorkSize(ed.n)
  /\ Len(ed.calls) = 2 =>
       /\ ed.calls[1].info = 0
       /\ ed.calls[2].lwork = ed.work
       /\ ed.calls[2].worklen = ed.work
       /\ ed.calls[2].args = ed.calls[1].args
  /\ ed.solved # EmptyMat => Len(ed.calls) = 2

C11_Witness ==
  /\ Len(ed.calls) = 2 /\ ed.n >= 9
  /\ ed.calls[2].lwork = 9 * ed.n /\ ed.calls[2].info = 0
\* C12: once a VSA object has solved (here: for a subsystem that is not
\* empty), no later operation on it, a second call of solve included,
\* changes eigenvals_ or eigenvecs_, and no second solve completes on the
\* same object.
C12_ResultsReadOnly ==
  (Len(published) >= 1 /\ subset_size_ >= 1) =>
    /\ eigenvals_ = published[1].eigenvals
    /\ eigenvecs_ = published[1].eigenvecs
    /\ Len(published) = 1
\* A and B are the same matrix of rationals
RatEq(A, B) ==
  /\ A.rows = B.rows /\ A.cols = B.cols
  /\ \A i \in Idx(A.rows), j \in Idx(A.cols) :
       At(A, i, j) * B.den = At(B, i, j) * A.den

\* C13: with l = 3 * subset_size_ and n the dimension of the Hessian, the
\* four blocks tile the Hessian: Hss is rows and columns [0,l), Hee rows and
\* columns [l,n), Hse rows [0,l) by columns [l,n), Hes rows [l,n) by columns
\* [0,l), every entry of the Hessian lies in exactly one block; the mass
\* blocks Ms and Me are cut at the same l, and l stays what it was.  The
\* entries are compared where the blocks are cut, their sizes everywhere.
C13_BlocksTileHessian ==
  /\ Called("submatrix(hessian_)") =>
       loc.l = 3 * subset_size_ /\ loc.n = hessian_.cols
  /\ Count("submatrix(hessian_)") = 4 =>
       LET l == 3 * subset_size_
           n == hessian_.cols
       IN  /\ loc.Hss.rows = l /\ loc.Hss.cols = l
           /\ loc.Hee.rows = n - l /\ loc.Hee.cols = n - l
           /\ loc.Hse.rows = l /\ loc.Hse.cols = n - l
           /\ loc.Hes.rows = n - l /\ loc.Hes.cols = l
           /\ loc.Hss.rows * loc.Hss.cols + loc.Hee.rows * loc.Hee.cols
              + loc.Hse.rows * loc.Hse.cols + loc.Hes.rows * loc.Hes.cols
              = n * n
  /\ pc = "Partitioned" =>
       LET l == 3 * subset_size_
           n == hessian_.cols
       IN  \A i, j \in Idx(n) :
             At(hessian_, i, j) =
               IF i < l /\ j < l THEN At(loc.Hss, i, j)
               ELSE IF i >= l /\ j >= l THEN At(loc.Hee, i - l, j - l)
               ELSE IF i < l THEN At(loc.Hse, i, j - l)
               ELSE At(loc.Hes, i - l, j)
  /\ Called("add") =>
       LET l == 3 * subset_size_
           n == hessian_.cols
       IN  /\ loc.Ms.rows = l /\ loc.Ms.cols = l
           /\ loc.Me.rows = n - l /\ loc.Me.cols = n - l
  /\ pc = "MassReady" =>
       LET l == 3 * subset_size_
           n == hessian_.cols
       IN  /\ \A i, j \in Idx(l) : At(loc.Ms, i, j) = At(masses_, i, j)
           /\ \A i, j \in Idx(n - l) :
                At(loc.Me, i, j) = At(masses_, i + l, j + l)

C13_Witness ==
  /\ pc = "MassReady"
  /\ loc.l = 9 /\ loc.n = 12
  /\ At(loc.Hse, 6, 0) # 0 /\ At(loc.Hes, 0, 6) # 0
  /\ At(loc.Me, 0, 0) # At(loc.Ms, 0, 0)

\* C14: when Hee is invertible, the effective Hessian solve stores is the
\* Schur complement Hss - Hse * inverse(Hee) * Hes, and with masses the
\* effective mass is Ms + Hse * inverse(Hee) * Me * inverse(Hee) * Hes, the
\* factors in that order.  The products are formed here from the right, the
\* code forms them from the left.
C14_SchurComplement ==
  /\ pc = "EffectiveReady" =>
       /\ Det(loc.Hee) # 0
       /\ RatEq(MMMultiply(loc.Hee, loc.Heei),
                Mat(loc.Hee.rows, loc.Hee.rows,
                    LAMBDA i, j : IF i = j THEN 1 ELSE 0))
       /\ RatEq(Hssp_,
                MSub(loc.Hss,
                     MMMultiply(loc.Hse, MMMultiply(loc.Heei, loc.Hes))))
  /\ pc = "MassReady" =>
       RatEq(Msp_,
             MAdd(loc.Ms,
                  MMMultiply(loc.Hse,
                    MMMultiply(loc.Heei,
                      MMMultiply(loc.Me, MMMultiply(loc.Heei, loc.Hes))))))
  /\ Called("subtract") => Hssp_.rows = 3 * subset_size_
  /\ Called("add") => Msp_.rows = 3 * subset_size_

\* the chain of 4 atoms with spring constant 2, split 2/2: Hssp_ is the
\* Hessian of a chain of 2 atoms, and the second atom of the subsystem
\* carries the masses 2, 1 and 2 of itself and the environment
C14_Witness ==
  /\ pc = "MassReady"
  /\ blocker_ = [atoms |-> 4, kappa |-> 2] /\ subset_size_ = 2
  /\ At(Hssp_, 0, 0) = 2 * Hssp_.den /\ At(Hssp_, 3, 3) = 2 * Hssp_.den
  /\ At(Hssp_, 0, 3) = -2 * Hssp_.den
  /\ At(Msp_, 0, 0) = Msp_.den /\ At(Msp_, 3, 3) = 5 * Msp_.den

\* the backends have written to copies only
CopiesOnly ==
  /\ ed.AA.of \in {"", "A"} /\ ed.BB.of \in {"", "B"}
  /\ mw.R.of \in {"", "M"}
  /\ ed.AA.overwritten => ed.AA.of = "A" /\ ed.A = "Hssp_"
  /\ ed.BB.overwritten => ed.BB.of = "B" /\ ed.B = "Msp_"
  /\ mw.R.overwritten => mw.R.of = "M" /\ mw.M = "Msp_"

\* C15: eigenDecomp and massWeight leave their inputs as they were: the
\* backends overwrite copies only, so from the call of eigenDecomp on,
\* Hssp_ and Msp_ stay entry for entry what solve computed, and the
\* eigenvectors passed to massWeight stay what eigenDecomp returned.
C15_InputsUnchanged ==
  /\ []CopiesOnly
  /\ [][/\ Called("subtract") => Hssp_' = Hssp_
        /\ Called("add") => Msp_' = Msp_
        /\ Called("massWeight") => loc'.Us = loc.Us]_vars

C15_Witness ==
  /\ pc = "Solved" /\ Called("massWeight")
  /\ ed.AA.overwritten /\ ed.BB.overwritten /\ mw.R.overwritten
  /\ Msp_.rows >= 9 /\ At(Msp_, 0, 0) # 0
\* C16: eigenDecomp always asks for the eigenpairs il = 7 to iu = N
\* (1-based); for an input of dimension N <= 6 that range is empty or
\* invalid, and the call never returns eigenpairs: it ends in the error
\* exit.
C16_SmallInputFails ==
  /\ Called("eigenDecomp") =>
       /\ ed.il = 7 /\ ed.iu = ed.n /\ ed.n = Hssp_.rows
       /\ \A k \in DOMAIN ed.calls :
            ed.calls[k].args[4] = 7 /\ ed.calls[k].args[5] = ed.n
  /\ (Called("eigenDecomp") /\ Hssp_.rows <= 6) =>
       /\ Failed /\ err = "dsygvx"
       /\ ~Returned
       /\ eigenvals_ = EmptyMat /\ eigenvecs_ = EmptyVecs

C16_Witness ==
  /\ Failed /\ err = "dsygvx" /\ Hssp_.rows = 6 /\ masses_.rows = 12
  /\ ed.info = -12 /\ Len(ed.calls) = 1
\* ------------------------------------------------ AmberTraj properties
\* the call of readFrame that returned or threw last
LastCall == hist[Len(hist)]

\* C17: readFrame(i) throws the invalid-frame exception exactly when i is
\* not less than the number of frames, and otherwise positions the stream
\* at i * frame_size + frame_offset before it reads
C17_InvalidFrameIff ==
  (hist # <<>> /\ LastCall.op = "readFrame(i)" /\ LastCall.at # "unread")
    => /\ LastCall.ret = "invalid frame" <=> LastCall.i >= traj._nframes
       /\ LastCall.i < traj._nframes
            => LastCall.seek = LastCall.i * traj.frame_size
                               + traj.frame_offset

\* C18: after init the first sequential readFrame() returns true and
\* delivers the frame init read, without reading from the stream, and
\* clears the unread flag; every later sequential readFrame() reads the
\* next frame from the stream, so the first frame is delivered exactly once
C18_FirstFrameOnce ==
  /\ (traj.state = "ready" /\ hist = <<>>)
       => traj.unread /\ traj.frame = 0
  /\ (hist # <<>> /\ LastCall.op = "readFrame()" /\ LastCall.fresh)
       => /\ LastCall.ret = "true"
          /\ ~LastCall.read
          /\ LastCall.frame = 0
          /\ ~traj.unread
          /\ ifs = [pos |-> traj.frame_offset + traj.frame_size,
                    eof |-> FALSE, fail |-> FALSE]
  /\ (hist # <<>> /\ traj.seq /\ ~LastCall.fresh)
       => /\ LastCall.at # "unread"
          /\ LastCall.ret = "true" => LastCall.read /\ LastCall.frame >= 1
  /\ (Len(hist) = 2 /\ traj.seq /\ hist[1].ret = "true"
      /\ hist[2].ret = "true")
       => hist[2].frame = hist[1].frame + 1

\* the first two sequential reads after init deliver frames 0 and 1, the
\* second one from the stream
C18_Witness ==
  /\ Len(hist) = 2
  /\ traj.seq
  /\ hist[1].fresh
  /\ hist[1].ret = "true" /\ hist[1].frame = 0 /\ ~hist[1].read
  /\ hist[2].ret = "true" /\ hist[2].frame = 1 /\ hist[2].read

\* C19: after readFrame(i) has returned true, the next sequential
\* readFrame() delivers frame i + 1, or returns false when i is the last
\* frame; readFrame(0) right after init followed by readFrame() delivers
\* frame 1
C19_NextAfterRandomAccess ==
  (Len(hist) = 2 /\ hist[1].op = "readFrame(i)" /\ hist[1].ret = "true"
   /\ hist[2].op = "readFrame()")
    => \/ hist[2].ret = "true" /\ hist[2].frame = hist[1].i + 1
       \/ hist[2].ret = "false" /\ hist[1].i + 1 >= traj._nframes

\* C20 (as stated): reading past the end is not an error: when the stream
\* reaches end-of-file before or while the coordinates of a frame are read,
\* a sequential readFrame() returns false, every later sequential
\* readFrame() returns false too, and the I/O exception is thrown only for
\* a stream failure that is not end-of-file
C20_EofIsNotAnError ==
  /\ (hist # <<>> /\ LastCall.op = "readFrame()")
       => /\ (ifs.eof /\ LastCall.at \in {"entry", "coords"})
               => LastCall.ret = "false"
          /\ LastCall.ret = "io error" => ~ifs.eof
  /\ (Len(hist) = 2 /\ hist[1].op = "readFrame()" /\ hist[1].ret = "false"
      /\ hist[2].op = "readFrame()")
       => hist[2].ret = "false"

\* C20 (amended): when the stream reaches end-of-file before or while the
\* coordinates of a frame are read, a sequential readFrame() returns false,
\* and every later sequential readFrame() returns false too; the I/O
\* exception is thrown for a stream failure that is not end-of-file, and
\* also when a periodic trajectory ends after the coordinates of a frame,
\* so that end-of-file is reached while its box is read
C20_EofAmongCoordinatesIsNotAnError ==
  /\ (hist # <<>> /\ LastCall.op = "readFrame()")
       => /\ (ifs.eof /\ LastCall.at \in {"entry", "coords"})
               => LastCall.ret = "false"
          /\ LastCall.ret = "false"
               => ifs.eof /\ LastCall.at \in {"entry", "coords"}
          /\ LastCall.ret = "io error"
               => /\ ifs.fail
                  /\ ifs.eof => /\ traj.periodic
                                /\ LastCall.at = "box"
                                /\ LastCall.frame # Garbage
  /\ (Len(hist) = 2 /\ hist[1].op = "readFrame()" /\ hist[1].ret = "false"
      /\ hist[2].op = "readFrame()")
       => hist[2].ret = "false"

\* a sequential read of a periodic trajectory that ends after a coordinate
\* line throws the I/O exception at end-of-file, after a read that
\* delivered a frame
C20_Witness ==
  /\ Len(hist) = 2
  /\ hist[1].op = "readFrame()" /\ hist[1].ret = "true"
  /\ hist[2].op = "readFrame()" /\ hist[2].ret = "io error"
  /\ hist[2].at = "box"
  /\ ifs.eof
  /\ file.tail = "nobox"

\* ------------------------------------------------------------------ anm
\* the state of the other programs, which a tool does not touch
others == <<vsa, amber>>

\* no VSA object is solving and no trajectory is open
NoOthers ==
  /\ blocker_ = [atoms |-> 0, kappa |-> 0]
  /\ subset_size_ = 0
  /\ masses_ = EmptyMat
  /\ hessian_ = EmptyMat
  /\ Hssp_ = EmptyMat
  /\ Msp_ = EmptyMat
  /\ eigenvals_ = EmptyMat
  /\ eigenvecs_ = EmptyVecs
  /\ pc = "Unbuilt"
  /\ err = "none"
  /\ loc = NoLocals
  /\ svdresult = NoSvd
  /\ ed = NoEd
  /\ mw = NoMw
  /\ assigned = {}
  /\ trace = <<>>
  /\ published = <<>>
  /\ NoTraj

\* MMMultiply(Vt, U, true, true), the product of the transposes: entry
\* (a, b) is the sum over i of Vt(i, a) * U(b, i), so the product is the sum
\* over i of the outer product of row i of Vt and column i of U.  Term i
\* names the two vectors and the factor row i of Vt carries.
MMMultiplyTT(Vt, U) ==
  [i \in Idx(Vt.rows) |->
     [v |-> Vt.at[i + 1].src, u |-> U.col[i].src,
      num |-> Vt.at[i + 1].num, den |-> Vt.at[i + 1].den]]

\* anm is started on a selection of atoms
InitAnm ==
  /\ NoOthers
  /\ anm \in {[NoAnm EXCEPT !.pc = "start", !.atoms = a] :
                a \in 0 .. MaxAtoms}
  /\ neff = NoNeff
  /\ lipid = NoLipid

\* H = hessian(blocker)
AnmHessian ==
  /\ anm.pc = "start"
  /\ anm' = [anm EXCEPT !.pc = "hessian",
                        !.H = hessian(anm.atoms, MaxSpring)]
  /\ UNCHANGED <<others, neff, lipid>>

\* result = svd(H); U, S, Vt are taken from it and n = S.rows()
AnmSvd ==
  /\ anm.pc = "hessian"
  /\ \E s \in Descending(anm.H.rows, MaxVal) :
       anm' = [anm EXCEPT
                 !.pc = "svd",
                 !.U = Vecs(anm.H.rows, anm.H.rows,
                            LAMBDA j : Filled("svd.U", j)),
                 !.S = Mat(anm.H.rows, 1, LAMBDA i, j : s[i + 1]),
                 !.Vt = ScaledRows(anm.H.rows, anm.H.rows,
                                   LAMBDA j : RowOf("svd.Vt", j)),
                 !.n = anm.H.rows]
  /\ UNCHANGED <<others, neff, lipid>>

\* reverseRows(S); reverseColumns(U); reverseRows(Vt)
AnmReverse ==
  /\ anm.pc = "svd"
  /\ anm' = [anm EXCEPT !.pc = "scale", !.S = reverseRows(anm.S),
                        !.U = reverseColumns(anm.U),
                        !.Vt = reverseRows(anm.Vt), !.i = 6]
  /\ UNCHANGED <<others, neff, lipid>>

\* one round of the loop over i: every entry of row i of Vt is multiplied
\* by s = 1.0 / S[i]
AnmScale ==
  /\ anm.pc = "scale"
  /\ anm.i < anm.n
  /\ anm' = [anm EXCEPT
               !.Vt.at[anm.i + 1].den = @ * At(anm.S, anm.i, 0),
               !.i = @ + 1]
  /\ UNCHANGED <<others, neff, lipid>>

\* the loop is left and Hi = MMMultiply(Vt, U, true, true) is written
AnmInvert ==
  /\ anm.pc = "scale"
  /\ ~(anm.i < anm.n)
  /\ anm' = [anm EXCEPT !.pc = "done", !.Hi = MMMultiplyTT(anm.Vt, anm.U)]
  /\ UNCHANGED <<others, neff, lipid>>

NextAnm ==
  \/ AnmHessian
  \/ AnmSvd
  \/ AnmReverse
  \/ AnmScale
  \/ AnmInvert

SpecAnm == InitAnm /\ [][NextAnm]_vars

\* C21: the pseudo-inverse anm writes ignores the 6 lowest modes: with the
\* modes in ascending order of singular value, mode i enters Hi with the
\* weight 1 / S[i] for i >= 6 and with the weight 0 for i < 6
C21_LowestModesIgnored ==
  (anm.pc = "done" /\ anm.n > 6)
    => /\ \A i \in Idx(anm.n) :
            i + 1 < anm.n => At(anm.S, i, 0) <= At(anm.S, i + 1, 0)
       /\ \A i \in Idx(anm.n) :
            /\ anm.Hi[i].v = anm.n - 1 - i
            /\ anm.Hi[i].u = anm.n - 1 - i
            /\ i >= 6 => anm.Hi[i].num * At(anm.S, i, 0) = anm.Hi[i].den
            /\ i < 6 => anm.Hi[i].num = 0

\* ----------------------------------------------------------------- neff
RECURSIVE Lists(_, _)
\* the lists of 1 to k elements of the set S
Lists(S, k) ==
  IF k = 0 THEN {}
  ELSE {<<x>> : x \in S}
       \cup {Append(l, x) : l \in Lists(S, k - 1), x \in S}

\* the state lists readStates returns: at least one state, at least one
\* bin in every state; here up to n states of up to m bins with ids up to
\* top
StateLists(n, m, top) == Lists(Lists(0 .. top, m), n)

\* the bin ids that appear in the states
BinsOf(states) ==
  UNION {{states[j][k] : k \in 1 .. Len(states[j])} : j \in 1 .. Len(states)}

\* the largest of the bin ids, as the loop of lines 106-110 finds it
\* starting from 0
Largest(B) == CHOOSE m \in B \cup {0} : \A b \in B : b <= m

\* mapStates is called on the states read from the state file
InitNeff ==
  /\ NoOthers
  /\ anm = NoAnm
  /\ neff \in {[NoNeff EXCEPT !.pc = "called", !.states = st] :
                 st \in StateLists(MaxStates, MaxBins, MaxBin)}
  /\ lipid = NoLipid

\* maxbin is found and binmap is constructed with maxbin elements, all 0
NeffAllocate ==
  /\ neff.pc = "called"
  /\ LET maxbin == Largest(BinsOf(neff.states))
     IN  neff' = [neff EXCEPT !.pc = "mapping", !.maxbin = maxbin,
                              !.binmap = [b \in 1 .. maxbin |-> 0],
                              !.j = 0, !.k = 0]
  /\ UNCHANGED <<others, anm, lipid>>

\* one round of the inner loop: binmap[*i] = j.  operator[] does not check
\* the index: a write past the end of the vector lands in memory that is
\* not the vector's, and the process goes on or is stopped there.
NeffWrite ==
  /\ neff.pc = "mapping"
  /\ neff.j < Len(neff.states)
  /\ LET list == neff.states[neff.j + 1]
         bin == list[neff.k + 1]
         last == neff.k + 1 = Len(list)
         next == [neff EXCEPT !.j = IF last THEN @ + 1 ELSE @,
                              !.k = IF last THEN 0 ELSE @ + 1]
     IN  IF bin < Len(neff.binmap)
         THEN neff' = [next EXCEPT !.binmap[bin + 1] = neff.j]
         ELSE \E stopped \in BOOLEAN :
                neff' = [next EXCEPT
                           !.outside = @ \cup {[bin |-> bin, j |-> neff.j]},
                           !.pc = IF stopped THEN "stopped" ELSE @]
  /\ UNCHANGED <<others, anm, lipid>>

\* return(binmap)
NeffReturn ==
  /\ neff.pc = "mapping"
  /\ ~(neff.j < Len(neff.states))
  /\ neff' = [neff EXCEPT !.pc = "returned"]
  /\ UNCHANGED <<others, anm, lipid>>

NextNeff ==
  \/ NeffAllocate
  \/ NeffWrite
  \/ NeffReturn

SpecNeff == InitNeff /\ [][NextNeff]_vars

\* C22: mapStates returns a map defined on every bin id that appears in a
\* state, with binmap[b] the index of a state that lists b, and every write
\* binmap[b] is within the bounds of the map, the one for the largest bin
\* id included
C22_MapCoversEveryBin ==
  /\ neff.outside = {}
  /\ neff.pc = "returned"
       => \A b \in BinsOf(neff.states) :
            /\ b < Len(neff.binmap)
            /\ b \in BinsOf(<<neff.states[neff.binmap[b + 1] + 1]>>)

\* ------------------------------------------------------- lipid_lifetime
\* the contact time series the frame loop can leave: for every lipid
\* nframes values, each 0 or 1
Contacts(lipids, nframes) ==
  [1 .. lipids -> [1 .. nframes -> {0, 1}]]

\* j < (contacts[i].size() - t): size() is a 64-bit unsigned and t and j
\* are 32-bit unsigned, so the difference is taken modulo 2^64; for
\* t > size it is at least 2^64 - 2^32 and no value of j reaches it
Below(j, size, t) == IF t <= size THEN j < size - t ELSE TRUE

\* the frame loop has ended and the probability loop starts with t = 1
InitLipid ==
  /\ NoOthers
  /\ anm = NoAnm
  /\ neff = NoNeff
  /\ lipid \in {[NoLipid EXCEPT !.pc = "lag", !.nframes = f,
                                !.contacts = c, !.maxdt = m, !.t = 1] :
                  f \in 0 .. MaxFrames, m \in 0 .. MaxDt,
                  c \in UNION {Contacts(l, ff) : l \in 0 .. MaxLipids,
                                                 ff \in 0 .. MaxFrames}}
  /\ \A k \in 1 .. Len(lipid.contacts) :
       Len(lipid.contacts[k]) = lipid.nframes

\* one round of the loop over j: contacts[i][j] is read, and contacts[i][j+t]
\* when it was 1.  operator[] does not check the index: a read past the
\* end of the series gives whatever the memory there holds.
LipidAccess ==
  /\ lipid.pc = "lag"
  /\ lipid.t < lipid.maxdt
  /\ lipid.i < Len(lipid.contacts)
  /\ Below(lipid.j, lipid.nframes, lipid.t)
  /\ lipid.j < lipid.nframes + MaxPast
  /\ LET series == lipid.contacts[lipid.i + 1]
         Values(k) == IF k < lipid.nframes THEN {series[k + 1]} ELSE {0, 1}
         Outside(k) == IF k < lipid.nframes THEN {}
                       ELSE {[i |-> lipid.i, index |-> k]}
     IN  \E now \in Values(lipid.j), later \in Values(lipid.j + lipid.t) :
           lipid' = [lipid EXCEPT
                       !.j = @ + 1,
                       !.wrapped = @ \/ lipid.t > lipid.nframes,
                       !.total_tmp = IF now = 1 THEN @ + 1 ELSE @,
                       !.bound_tmp = IF now = 1 /\ later = 1 THEN @ + 1
                                     ELSE @,
                       !.outside = @ \cup Outside(lipid.j)
                                     \cup (IF now = 1
                                           THEN Outside(lipid.j + lipid.t)
                                           ELSE {})]
  /\ UNCHANGED <<others, anm, neff>>

\* the loop over j is left for the next lipid
LipidNextLipid ==
  /\ lipid.pc = "lag"
  /\ lipid.t < lipid.maxdt
  /\ lipid.i < Len(lipid.contacts)
  /\ ~Below(lipid.j, lipid.nframes, lipid.t)
  /\ lipid' = [lipid EXCEPT !.i = @ + 1, !.j = 0]
  /\ UNCHANGED <<others, anm, neff>>

\* the loop over the lipids is left: the probability of the lag t is
\* printed and the next lag starts
LipidPrint ==
  /\ lipid.pc = "lag"
  /\ lipid.t < lipid.maxdt
  /\ ~(lipid.i < Len(lipid.contacts))
  /\ lipid' = [lipid EXCEPT !.t = @ + 1, !.i = 0, !.j = 0,
                            !.bound_tmp = 0, !.total_tmp = 0]
  /\ UNCHANGED <<others, anm, neff>>

\* the loop over t is left
LipidDone ==
  /\ lipid.pc = "lag"
  /\ ~(lipid.t < lipid.maxdt)
  /\ lipid' = [lipid EXCEPT !.pc = "done"]
  /\ UNCHANGED <<others, anm, neff>>

NextLipid ==
  \/ LipidAccess
  \/ LipidNextLipid
  \/ LipidPrint
  \/ LipidDone

SpecLipid == InitLipid /\ [][NextLipid]_vars

\* C23: in the probability loop, for every lag t with 1 <= t < maxdt and
\* every trajectory length, maxdt larger than the number of frames
\* included, every access contacts[i][j] and contacts[i][j+t] is within the
\* time series of the lipid, and the unsigned bound contacts[i].size() - t
\* never wraps around
C23_AccessesInBounds ==
  /\ lipid.outside = {}
  /\ ~lipid.wrapped

====
